---- MODULE Spec2Model ----
(***************************************************************************)
(* Gamma test runner: the GUI launcher and observer (gui.py) and the JSON  *)
(* flow runner (tests/json_runner.py).                                     *)
(*                                                                         *)
(* Spec        the GUI: Start / Stop / Clear clicks, the launcher thread   *)
(*             (run_test_process), the log consumer thread                 *)
(*             (consume_test_logs), the child processes and the run        *)
(*             artifacts written by create_test_summary.                   *)
(* SpecRunner  one invocation of json_runner.main on a bounded flow        *)
(*             document, followed by the execution engine's step loop.     *)
(* SpecEngine  the engine's step loop alone, on every bounded step list.   *)
(* SpecClassifier  one turn of the consumer's for loop on a bounded line   *)
(*             of text: strip, the error rules, the tag.                   *)
(* SpecDuration  one call of calculate_test_duration on bounded step       *)
(*             timings and log stamps.                                     *)
(* SpecLive    the GUI with its threads scheduled fairly and every child   *)
(*             ending: Spec without Clear, on plain lines.                 *)
(* SpecBuilder the Test Builder tab: steps added, the flow saved into the  *)
(*             project folder, the flows of the header refreshed, and the  *)
(*             saved file loaded by json_runner.main.                      *)
(* SpecPrefix  discover_projects on every bounded folder name, the child   *)
(*             environment of run_test_process and the variables           *)
(*             json_runner.main looks up.                                  *)
(***************************************************************************)
EXTENDS Integers, Sequences, FiniteSets, TLC

\* ------------------------------------------------------------------ bounds
MaxRuns == 2        \* Start clicks that reach run_test_process
MaxLines == 2       \* output lines one child process prints
MaxTime == 1        \* wall-clock seconds that pass (fallback directory names)
MaxSteps == 2       \* steps in a flow document given to the runner
MaxEngineSteps == 3 \* steps in a list given to the engine
MaxFragments == 2   \* pieces an output line is made of
MaxEpoch == 3       \* the latest epoch of a step, in ticks
MaxTimedSteps == 2   \* steps recorded in a summary.json
MaxBuilderSteps == 2 \* steps added in the builder
MaxFlowFiles == 1    \* flow files the builder has written
MaxNameLen == 3     \* characters of a project folder name

\* --------------------------------------------------------- program constants
ExitOk == 0             \* a child that ends normally and reports success
ExitFail == 1           \* a child that ends with an uncaught error
ExitNoSteps == 2        \* json_runner.py: sys.exit(2)
ExitTerminated == -15   \* Popen.terminate(): SIGTERM

NoProcess == 0          \* self.test_process = None

VARIABLES
    \* ---- gui.py, TestRunnerGUI
    test_running,   \* self.test_running
    test_process,   \* self.test_process: NoProcess or the id of a Popen object
    proc,           \* the Popen objects / child processes, by id
    runner,         \* the run_test_process threads, by run
    consumer,       \* the consume_test_logs threads, by run
    logs_text,      \* self.logs_text: its RUN_DIR sentinel lines, in order
    dirs,           \* directories that exist under logs/
    written,        \* the files create_test_summary wrote
    now,            \* the wall clock when it was last read, in seconds
    nruns,          \* Start clicks that launched a thread so far
    \* ---- tests/json_runner.py, main, and the engine it calls
    r_pc,           \* position in main
    r_data,         \* data = json.load(f)
    r_name,         \* project_name (sys.argv[2])
    r_env,          \* os.environ, the {PREFIX}_* variables
    project_config, \* project_config
    resolved_steps, \* resolved_steps
    r_exit,         \* the exit code of the runner process
    engine,         \* the BaseTestEngine instance
    \* ---- gui.py, one turn of the for loop of consume_test_logs on a text
    cl_line,        \* line, as readline returned it
    cl_tag,         \* the tag add_log was called with
    cl_test_failed, \* test_failed
    cl_error_message, \* error_message
    \* ---- gui.py, one call of calculate_test_duration
    du_steps,       \* summary.get("steps", []) of log_dir/summary.json
    du_timestamps,  \* timestamps, the [HH:MM:SS] stamps of log_content
    du_duration,    \* the value returned
    \* ---- gui.py, the projects, the header and the Test Builder tab
    fs_case_sensitive, \* whether the file system tells "demo" from "DEMO"
    fs_entries,     \* the folders under tests/projects
    fs_files,       \* the files in those folders
    environ,        \* os.environ of the GUI process
    projects,       \* self.projects
    project_var,    \* self.project_var, the project of the header
    flow_combo,     \* self.flow_combo["values"]
    builder_project_var, \* self.builder_project_var
    steps_listbox,  \* self.steps_listbox: one JSON text per step
    builder_steps,  \* the step dicts builder_add_step built, in order
    builder_error_var,  \* self.builder_error_var
    builder_status_var, \* self.builder_status_var
    builder_saved   \* the last successful builder_save_flow

guiVars == <<test_running, test_process, proc, runner, consumer, logs_text,
             dirs, written, now, nruns>>
runnerVars == <<r_pc, r_data, r_name, r_env, project_config, resolved_steps,
                r_exit, engine>>
classifierVars == <<cl_line, cl_tag, cl_test_failed, cl_error_message>>
durationVars == <<du_steps, du_timestamps, du_duration>>
builderVars == <<fs_case_sensitive, fs_entries, fs_files, environ, projects,
                 project_var, flow_combo, builder_project_var, steps_listbox,
                 builder_steps, builder_error_var, builder_status_var,
                 builder_saved>>
pureVars == <<classifierVars, durationVars, builderVars>>
vars == <<guiVars, runnerVars, pureVars>>

Runs == 1..MaxRuns

\* ======================================================================
\* Texts (str): the string methods both programs call
\* ======================================================================

\* A text is a sequence of characters, so that strip(), lower(),
\* startswith() and `in` are computed. The two failure glyphs U+2717 and
\* U+274C are one character each, written by their code points.
UpperLetters ==
    <<"A", "B", "C", "D", "E", "F", "G", "H", "I", "J", "K", "L", "M", "N",
      "O", "P", "Q", "R", "S", "T", "U", "V", "W", "X", "Y", "Z">>
LowerLetters ==
    <<"a", "b", "c", "d", "e", "f", "g", "h", "i", "j", "k", "l", "m", "n",
      "o", "p", "q", "r", "s", "t", "u", "v", "w", "x", "y", "z">>

IsLetter(c) ==
    \E i \in 1..Len(UpperLetters) : c = UpperLetters[i] \/ c = LowerLetters[i]

\* str.lower()
LowerChar(c) ==
    IF \E i \in 1..Len(UpperLetters) : UpperLetters[i] = c
      THEN LowerLetters[CHOOSE i \in 1..Len(UpperLetters) : UpperLetters[i] = c]
      ELSE c
Lower(s) == [i \in 1..Len(s) |-> LowerChar(s[i])]

\* str.strip()
Whitespace == {" ", "\t", "\n"}
RECURSIVE LStrip(_)
LStrip(s) ==
    IF s # <<>> /\ Head(s) \in Whitespace THEN LStrip(Tail(s)) ELSE s
RECURSIVE RStrip(_)
RStrip(s) ==
    IF s # <<>> /\ s[Len(s)] \in Whitespace
      THEN RStrip(SubSeq(s, 1, Len(s) - 1)) ELSE s
Strip(s) == RStrip(LStrip(s))

\* str.startswith(prefix) and `sub in s`
StartsWith(s, prefix) ==
    Len(s) >= Len(prefix) /\ SubSeq(s, 1, Len(prefix)) = prefix
Contains(s, sub) ==
    \E i \in 1..(Len(s) - Len(sub) + 1) : SubSeq(s, i, i + Len(sub) - 1) = sub

\* str.upper()
UpperChar(c) ==
    IF \E i \in 1..Len(LowerLetters) : LowerLetters[i] = c
      THEN UpperLetters[CHOOSE i \in 1..Len(LowerLetters) : LowerLetters[i] = c]
      ELSE c
UpperText(s) == [i \in 1..Len(s) |-> UpperChar(s[i])]

\* str.replace(old, new) for one-character old and new
Replace(s, old, new) == [i \in 1..Len(s) |-> IF s[i] = old THEN new ELSE s[i]]

\* ======================================================================
\* gui.py
\* ======================================================================

\* A line of child output: line n of child p. kind "rundir" is the sentinel
\* "RUN_DIR: <path>", "err" a line the consumer's rules classify as error,
\* "info" any other line.
Line(k, p, n) == [kind |-> k, pid |-> p, n |-> n]
LineKinds == {"rundir", "err", "info"}

RunDir(p) == <<"run", p>>       \* the directory child p created and announced
FallbackDir(t) == <<"ts", t>>   \* logs/{YYYYMMDD-HHMMSS}-checkout

\* A Popen object and its child. emitted counts the lines read from its
\* pipe; reaped says that wait() or poll() has set returncode.
NoProc == [state |-> "none", flow |-> "none", emitted |-> 0, exit |-> 0,
           reaped |-> FALSE]

\* The locals of one consume_test_logs thread. src is the child whose stdout
\* the for loop reads, waited the one line 1910 waits on. last_err is not a
\* local: it records the number of the last line of src that this thread
\* took the error branch (1899-1902) on, 0 for none.
NoConsumer == [pc |-> "idle", src |-> NoProcess, test_failed |-> FALSE,
               error_message |-> <<>>, waited |-> NoProcess, status |-> "none",
               last_err |-> 0]

GuiInit ==
    /\ test_running = FALSE
    /\ test_process = NoProcess
    /\ proc = [p \in Runs |-> NoProc]
    /\ runner = [k \in Runs |-> "idle"]
    /\ consumer = [k \in Runs |-> NoConsumer]
    /\ logs_text = <<>>
    /\ dirs = {}
    /\ written = {}
    /\ now = 0
    /\ nruns = 0

\* ----------------------------------------------------------- child process
\* A child started on a flow the runner can load ends with 0 or 1; one
\* started on a flow document without steps is json_runner.py failing at
\* load, which ends with 2.
ChildExit(p, code) ==
    /\ proc[p].state = "running"
    /\ IF proc[p].flow = "invalid"
         THEN code = ExitNoSteps
         ELSE code \in {ExitOk, ExitFail}
    /\ proc' = [proc EXCEPT ![p].state = "exited", ![p].exit = code]
    /\ UNCHANGED <<test_running, test_process, runner, consumer, logs_text,
                   dirs, written, now, nruns, runnerVars, pureVars>>

\* --------------------------------------------------------------- start_test
StartTest ==
    /\ ~test_running
    /\ nruns < MaxRuns
    /\ test_running' = TRUE
    /\ logs_text' = <<>>
    /\ nruns' = nruns + 1
    /\ runner' = [runner EXCEPT ![nruns + 1] = "run"]
    /\ UNCHANGED <<test_process, proc, consumer, dirs, written, now, runnerVars, pureVars>>

\* --------------------------------------------------------- run_test_process
\* launch: what the thread finds. "noproject": the project is not in
\* self.projects; "noscript": the script file does not exist; "raise": Popen
\* (or anything before it) raises; "valid" / "invalid": a child is started,
\* on a flow the runner can load or on one without steps.
LaunchInputs == {"noproject", "noscript", "raise", "valid", "invalid"}

RunTestProcess(k, launch) ==
    /\ runner[k] = "run"
    /\ runner' = [runner EXCEPT ![k] = "done"]
    /\ IF launch \in {"valid", "invalid"}
         THEN /\ proc' = [proc EXCEPT ![k] = [NoProc EXCEPT !.state = "running",
                                                           !.flow = launch]]
              /\ test_process' = k
              /\ consumer' = [consumer EXCEPT ![k].pc = "start"]
              /\ UNCHANGED test_running
         ELSE /\ test_running' = FALSE
              /\ UNCHANGED <<proc, test_process, consumer>>
    /\ UNCHANGED <<logs_text, dirs, written, now, nruns, runnerVars, pureVars>>

\* ---------------------------------------------------------------- stop_test
\* Popen.terminate() polls first: a child that has already ended is reaped,
\* a running one gets SIGTERM.
Terminate(pr) ==
    IF pr.state = "running"
      THEN [pr EXCEPT !.state = "exited", !.exit = ExitTerminated]
      ELSE [pr EXCEPT !.reaped = TRUE]

StopTest ==
    /\ test_running
    /\ proc' = IF test_process # NoProcess
                 THEN [proc EXCEPT ![test_process] = Terminate(@)]
                 ELSE proc
    /\ test_running' = FALSE
    /\ UNCHANGED <<test_process, runner, consumer, logs_text, dirs, written,
                   now, nruns, runnerVars, pureVars>>

\* --------------------------------------------------------------- clear_logs
ClearLogs ==
    /\ logs_text # <<>>
    /\ logs_text' = <<>>
    /\ UNCHANGED <<test_running, test_process, proc, runner, consumer, dirs,
                   written, now, nruns, runnerVars, pureVars>>

\* ------------------------------------------------------------- consume_logs
\* The 100 ms timer of the main thread: with no test running it polls the
\* current Popen object, which reaps a child that has ended.
ConsumeLogs ==
    /\ ~test_running
    /\ test_process # NoProcess
    /\ proc[test_process].state = "exited"
    /\ ~proc[test_process].reaped
    /\ proc' = [proc EXCEPT ![test_process].reaped = TRUE]
    /\ UNCHANGED <<test_running, test_process, runner, consumer, logs_text,
                   dirs, written, now, nruns, runnerVars, pureVars>>

\* -------------------------------------------------------- consume_test_logs
\* iter(self.test_process.stdout.readline, ""): the stream is taken once,
\* from whatever Popen object self.test_process names when the thread starts.
ConsumerStart(k) ==
    /\ consumer[k].pc = "start"
    /\ consumer' = [consumer EXCEPT ![k].pc = "read", ![k].src = test_process]
    /\ UNCHANGED <<test_running, test_process, proc, runner, logs_text, dirs,
                   written, now, nruns, runnerVars, pureVars>>

\* The decision of lines 1888-1898, on the kind of the line.
IsExplicitFail(line) == line.kind = "err"

\* What the log widget keeps of a line added to it.
AddLog(text, line) == IF line.kind = "rundir" THEN Append(text, line) ELSE text

\* One turn of the for loop: the next line of the pipe is read, classified
\* and logged. What the line is shows only now: any line, at most one RUN_DIR
\* sentinel per child (printed after the directory is made); the runner
\* failing at load prints one plain message.
ConsumerRead(k, kind) ==
    LET c == consumer[k]
        pr == proc[c.src]
        line == Line(kind, c.src, pr.emitted + 1)
    IN  /\ c.pc = "read"
        /\ pr.emitted < MaxLines
        /\ IF pr.flow = "invalid"
             THEN kind = "info" /\ pr.emitted = 0
             ELSE kind = "rundir" => RunDir(c.src) \notin dirs
        /\ proc' = [proc EXCEPT ![c.src].emitted = @ + 1]
        /\ dirs' = IF kind = "rundir" THEN dirs \cup {RunDir(c.src)} ELSE dirs
        /\ consumer' = [consumer EXCEPT
               ![k].test_failed = @ \/ IsExplicitFail(line),
               ![k].error_message = IF IsExplicitFail(line) THEN <<line>> ELSE @,
               ![k].last_err = IF kind = "err" THEN pr.emitted + 1 ELSE @]
        /\ logs_text' = AddLog(logs_text, line)
        /\ UNCHANGED <<test_running, test_process, runner, written, now,
                       nruns, runnerVars, pureVars>>

\* Mutant of ConsumerEOF: the loop ends while the child is still running.
ConsumerEOFAnytime(k) ==
    LET c == consumer[k]
    IN  /\ c.pc = "read"
        /\ consumer' = [consumer EXCEPT ![k].pc = "wait", ![k].waited = c.src]
        /\ UNCHANGED <<test_running, test_process, proc, runner, logs_text,
                       dirs, written, now, nruns, runnerVars, pureVars>>

\* End of stream: the child has ended and its pipe is drained. The loop ends
\* and line 1910 evaluates self.test_process to find the object to wait on.
ConsumerEOF(k) ==
    LET c == consumer[k]
        pr == proc[c.src]
    IN  /\ c.pc = "read"
        /\ pr.state = "exited"
        /\ pr.exit = ExitNoSteps => pr.emitted = 1
        /\ consumer' = [consumer EXCEPT ![k].pc = "wait", ![k].waited = test_process]
        /\ UNCHANGED <<test_running, test_process, proc, runner, logs_text,
                       dirs, written, now, nruns, runnerVars, pureVars>>

\* self.test_process.wait() returns once that child has ended, and reaps it.
ConsumerWait(k) ==
    LET c == consumer[k]
    IN  /\ c.pc = "wait"
        /\ proc[c.waited].state = "exited"
        /\ proc' = [proc EXCEPT ![c.waited].reaped = TRUE]
        /\ consumer' = [consumer EXCEPT ![k].pc = "rc"]
        /\ UNCHANGED <<test_running, test_process, runner, logs_text, dirs,
                       written, now, nruns, runnerVars, pureVars>>

\* Popen.returncode is None until the child has been reaped; None != 0.
ReturncodeNonZero(pr) == ~pr.reaped \/ pr.exit # ExitOk

\* Line 1913: test_failed or self.test_process.returncode != 0
FinalStatus(test_failed, pr) ==
    IF test_failed \/ ReturncodeNonZero(pr) THEN "failed" ELSE "ok"

\* Lines 1913-1920, with self.test_process evaluated again.
ConsumerStatus(k) ==
    LET c == consumer[k]
    IN  /\ c.pc = "rc"
        /\ consumer' = [consumer EXCEPT
               ![k].pc = "final",
               ![k].status = FinalStatus(c.test_failed, proc[test_process])]
        /\ UNCHANGED <<test_running, test_process, proc, runner, logs_text,
                       dirs, written, now, nruns, runnerVars, pureVars>>

\* ------------------------------------------------------ create_test_summary
\* The directories the RUN_DIR lines of the log widget name, in line order,
\* keeping those that exist.
RECURSIVE RunDirCandidates(_)
RunDirCandidates(lines) ==
    IF lines = <<>> THEN <<>>
    ELSE LET l == Head(lines)
             rest == RunDirCandidates(Tail(lines))
         IN  IF l.kind = "rundir" /\ RunDir(l.pid) \in dirs
               THEN <<RunDir(l.pid)>> \o rest
               ELSE rest

\* log_dir, with the clock reading t.
LogDir(t) ==
    LET found == RunDirCandidates(logs_text)
    IN  IF found # <<>> THEN Head(found) ELSE FallbackDir(t)

File(d, f, k, status, error_message) ==
    [dir |-> d, file |-> f, by |-> k, status |-> status, error |-> error_message]

\* Mutant of SummaryFiles: error_details.txt is written for every failed run.
SummaryFilesFailedDetails(d, k, status, error_message) ==
    {File(d, "summary.json", k, status, error_message),
     File(d, "test_log.txt", k, status, error_message)}
    \cup (IF status = "failed"
            THEN {File(d, "error_details.txt", k, status, error_message)}
            ELSE {})

\* Mutant of SummaryFiles: error_details.txt is written by every call.
SummaryFilesWithDetails(d, k, status, error_message) ==
    {File(d, "summary.json", k, status, error_message),
     File(d, "test_log.txt", k, status, error_message),
     File(d, "error_details.txt", k, status, error_message)}

\* The files one call writes into log_dir.
SummaryFiles(d, k, status, error_message) ==
    {File(d, "summary.json", k, status, error_message),
     File(d, "test_log.txt", k, status, error_message)}
    \cup (IF status = "failed" /\ error_message # <<>>
            THEN {File(d, "error_details.txt", k, status, error_message)}
            ELSE {})

\* Line 1924: self.create_test_summary(test_status, error_message, project).
\* t is datetime.now(), which never runs backwards.
ConsumerFinalize(k, t) ==
    LET c == consumer[k]
    IN  /\ c.pc = "final"
        /\ t >= now
        /\ now' = t
        /\ dirs' = dirs \cup {LogDir(t)}
        /\ written' = written \cup SummaryFiles(LogDir(t), k, c.status, c.error_message)
        /\ consumer' = [consumer EXCEPT ![k].pc = "reset"]
        /\ UNCHANGED <<test_running, test_process, proc, runner, logs_text,
                       nruns, runnerVars, pureVars>>

\* Mutant of ConsumerReset: the thread ends without resetting test_running.
ConsumerResetForgets(k) ==
    /\ consumer[k].pc = "reset"
    /\ consumer' = [consumer EXCEPT ![k] = [NoConsumer EXCEPT !.pc = "done"]]
    /\ UNCHANGED <<test_running, test_process, proc, runner, logs_text, dirs,
                   written, now, nruns, runnerVars, pureVars>>

\* Lines 1927-1929: self.test_running = False; the thread and its locals end.
ConsumerReset(k) ==
    /\ consumer[k].pc = "reset"
    /\ test_running' = FALSE
    /\ consumer' = [consumer EXCEPT ![k] = [NoConsumer EXCEPT !.pc = "done"]]
    /\ UNCHANGED <<test_process, proc, runner, logs_text, dirs, written, now,
                   nruns, runnerVars, pureVars>>

\* Lines 1931-1934: readline raises (output that does not decode); the
\* handler logs the error and resets test_running, and the thread ends.
ConsumerRaise(k) ==
    /\ consumer[k].pc = "read"
    /\ test_running' = FALSE
    /\ consumer' = [consumer EXCEPT ![k] = [NoConsumer EXCEPT !.pc = "raised"]]
    /\ UNCHANGED <<test_process, proc, runner, logs_text, dirs, written, now,
                   nruns, runnerVars, pureVars>>

GuiNext ==
    \/ StartTest
    \/ StopTest
    \/ ClearLogs
    \/ ConsumeLogs
    \/ \E k \in Runs, launch \in LaunchInputs : RunTestProcess(k, launch)
    \/ \E p \in Runs, code \in {ExitOk, ExitFail, ExitNoSteps} : ChildExit(p, code)
    \/ \E k \in Runs : ConsumerStart(k)
    \/ \E k \in Runs, kind \in LineKinds : ConsumerRead(k, kind)
    \/ \E k \in Runs : ConsumerEOF(k)
    \/ \E k \in Runs : ConsumerWait(k)
    \/ \E k \in Runs : ConsumerStatus(k)
    \/ \E k \in Runs, t \in 0..MaxTime : ConsumerFinalize(k, t)
    \/ \E k \in Runs : ConsumerReset(k)
    \/ \E k \in Runs : ConsumerRaise(k)

\* ======================================================================
\* tests/json_runner.py
\* ======================================================================

\* Project names are sequences of characters, so that upper() and replace()
\* are computed; every other string is a value that is only compared.
Upper(c) == UpperChar(c)

\* Mutant of NormalizePrefix: a space is left as it is.
NormalizePrefixDashOnly(name) ==
    [i \in 1..Len(name) |->
        LET u == Upper(name[i]) IN IF u = "-" THEN "_" ELSE u]

\* normalize_prefix: (name or "").upper().replace("-", "_").replace(" ", "_")
NormalizePrefix(name) ==
    [i \in 1..Len(name) |->
        LET u == Upper(name[i]) IN IF u \in {"-", " "} THEN "_" ELSE u]

default_ua == "Mozilla/5.0 (Macintosh; Intel Mac OS X 10_15_7) Chrome/126.0.0.0"

\* os.getenv(key, default)
Getenv(env, key, default) == IF key \in DOMAIN env THEN env[key] ELSE default

\* dict.get(key, default) on the top-level document
DataGet(d, key, default) == IF key \in DOMAIN d THEN d[key] ELSE default

\* A project block: the keys it has, and the value under each.
EmptyBlock == [keys |-> {}, name |-> <<>>, email |-> "", password |-> "",
               user_agent |-> ""]

\* Mutant of ProjectBlock: the blocks under the three keys are merged, each
\* field taken from the first block that has it.
ProjectBlockMerged(cfg) ==
    LET b1 == DataGet(cfg, "PROJECT_CONFIG", EmptyBlock)
        b2 == DataGet(cfg, "TARGET_CONFIG", EmptyBlock)
        b3 == DataGet(cfg, "BRAND_CONFIG", EmptyBlock)
        Pick(f) == IF f \in b1.keys THEN b1[f]
                   ELSE IF f \in b2.keys THEN b2[f] ELSE b3[f]
    IN  [keys |-> b1.keys \cup b2.keys \cup b3.keys, name |-> Pick("name"),
         email |-> Pick("email"), password |-> Pick("password"),
         user_agent |-> Pick("user_agent")]

\* Line 39: the block under the first key present
ProjectBlock(cfg) ==
    DataGet(cfg, "PROJECT_CONFIG",
        DataGet(cfg, "TARGET_CONFIG", DataGet(cfg, "BRAND_CONFIG", EmptyBlock)))

\* Lines 40-41: if "name" not in project_config: project_config["name"] = ...
WithName(block, project_name) ==
    IF "name" \in block.keys THEN block
    ELSE [block EXCEPT !.keys = @ \cup {"name"}, !.name = project_name]

\* Line 44: normalize_prefix(project_name or project_config.get("name", ""))
EnvPrefix(project_name, block) ==
    NormalizePrefix(IF project_name # <<>> THEN project_name
                    ELSE IF "name" \in block.keys THEN block.name ELSE <<>>)

\* Mutant of WithEnvDefaults: the user agent has no default of its own.
WithEnvDefaultsNoDefaultUA(block, prefix, env) ==
    [block EXCEPT
        !.keys = @ \cup {"email", "password", "user_agent"},
        !.email = IF "email" \in block.keys THEN @
                  ELSE Getenv(env, <<prefix, "EMAIL">>, ""),
        !.password = IF "password" \in block.keys THEN @
                     ELSE Getenv(env, <<prefix, "PASSWORD">>, ""),
        !.user_agent = IF "user_agent" \in block.keys THEN @
                       ELSE Getenv(env, <<prefix, "USER_AGENT">>, "")]

\* Lines 46-48: project_config.setdefault(field, os.getenv(prefix_FIELD, ...))
WithEnvDefaults(block, prefix, env) ==
    [block EXCEPT
        !.keys = @ \cup {"email", "password", "user_agent"},
        !.email = IF "email" \in block.keys THEN @
                  ELSE Getenv(env, <<prefix, "EMAIL">>, ""),
        !.password = IF "password" \in block.keys THEN @
                     ELSE Getenv(env, <<prefix, "PASSWORD">>, ""),
        !.user_agent = IF "user_agent" \in block.keys THEN @
                       ELSE Getenv(env, <<prefix, "USER_AGENT">>, default_ua)]

\* Lines 39-48
LoadProjectConfig(data, project_name, env) ==
    LET named == WithName(ProjectBlock(data.cfg), project_name)
    IN  WithEnvDefaults(named, EnvPrefix(project_name, named), env)

\* A step's "value": a string, or one of two marks for no string.
NoValue == "<absent>"       \* the step has no "value" key
NonString == "<number>"     \* the value is not a JSON string
IsStr(v) == v \notin {NoValue, NonString}

\* Mutant of HasSteps: the key is looked for, the list is not.
HasStepsKeyOnly(data) == data.steps.present

\* Lines 50-51: data.get("TEST_STEPS", []), a non-empty list or not
HasSteps(data) ==
    data.steps.present /\ data.steps.islist /\ data.steps.items # <<>>

\* Mutants of ResolveStep: $PASSWORD is left alone; both tokens get the email.
ResolveStepEmailOnly(st, cfg) ==
    IF st.action = "fill" /\ st.value = "$EMAIL"
      THEN [st EXCEPT !.value = cfg.email]
      ELSE st
ResolveStepAlwaysEmail(st, cfg) ==
    IF st.action = "fill" /\ st.value \in {"$EMAIL", "$PASSWORD"}
      THEN [st EXCEPT !.value = cfg.email]
      ELSE st

\* Lines 58-66: one turn of the loop
ResolveStep(st, cfg) ==
    IF st.action = "fill" /\ IsStr(st.value)
      THEN IF st.value = "$EMAIL"
             THEN [st EXCEPT !.value = IF "email" \in cfg.keys THEN cfg.email ELSE ""]
           ELSE IF st.value = "$PASSWORD"
             THEN [st EXCEPT !.value = IF "password" \in cfg.keys THEN cfg.password ELSE ""]
           ELSE st
      ELSE st

\* Lines 56-66
ResolveSteps(steps, cfg) == [i \in 1..Len(steps) |-> ResolveStep(steps[i], cfg)]

NoEngine == [state |-> "none", config |-> EmptyBlock, steps |-> <<>>,
             cursor |-> 0, results |-> <<>>, status |-> "none", finalized |-> 0]

\* Lines 36-53: the document is loaded, the project block completed, and the
\* step list checked.
RunnerLoad ==
    /\ r_pc = "start"
    /\ project_config' = LoadProjectConfig(r_data, r_name, r_env)
    /\ IF HasSteps(r_data)
         THEN r_pc' = "loaded" /\ UNCHANGED r_exit
         ELSE r_pc' = "exit" /\ r_exit' = ExitNoSteps
    /\ UNCHANGED <<r_data, r_name, r_env, resolved_steps, engine, guiVars, pureVars>>

\* Lines 55-66
RunnerResolve ==
    /\ r_pc = "loaded"
    /\ resolved_steps' = ResolveSteps(r_data.steps.items, project_config)
    /\ r_pc' = "resolved"
    /\ UNCHANGED <<r_data, r_name, r_env, project_config, r_exit, engine, guiVars, pureVars>>

\* ======================================================================
\* tests/base_test_engine.py (BaseTestEngine)
\* ======================================================================

\* BaseTestEngine(project_config) followed by run_test(steps): the run starts.
EngineNew(cfg, steps) ==
    [state |-> "Running", config |-> cfg, steps |-> steps, cursor |-> 1,
     results |-> <<>>, status |-> "none", finalized |-> 0]

\* Lines 68-69 of json_runner.py
RunnerEngine ==
    /\ r_pc = "resolved"
    /\ engine' = EngineNew(project_config, resolved_steps)
    /\ r_pc' = "engine"
    /\ UNCHANGED <<r_data, r_name, r_env, project_config, resolved_steps,
                   r_exit, guiVars, pureVars>>

\* critical: boolean (default true)
Critical(st) == st.critical # "false"

\* Mutants of Halts: no failure aborts; every failure aborts.
HaltsNever(st, outcome) == FALSE
HaltsOnAnyFailure(st, outcome) == outcome = "failed"

\* A failed critical step aborts the run.
Halts(st, outcome) == outcome = "failed" /\ Critical(st)

\* The step under the cursor is executed and its StepResult recorded.
EngineStep(outcome) ==
    LET st == engine.steps[engine.cursor]
        done == engine.cursor = Len(engine.steps)
    IN  /\ r_pc = "engine"
        /\ engine.state = "Running"
        /\ engine' = [engine EXCEPT
               !.results = Append(@, [index |-> engine.cursor, status |-> outcome]),
               !.cursor = IF Halts(st, outcome) THEN @ ELSE @ + 1,
               !.state = IF Halts(st, outcome) THEN "Aborted"
                         ELSE IF done THEN "Completed" ELSE "Running"]
        /\ UNCHANGED <<r_pc, r_data, r_name, r_env, project_config,
                       resolved_steps, r_exit, guiVars, pureVars>>

\* Mutant of RunStatus: only the last step decides.
RunStatusOfLastStep(results) ==
    IF results # <<>> /\ results[Len(results)].status = "failed" THEN "failed" ELSE "ok"

\* overall status: failed when any step failed
RunStatus(results) ==
    IF \E i \in 1..Len(results) : results[i].status = "failed" THEN "failed" ELSE "ok"

\* The Run Artifact Writer: summary.json is written once the run has ended,
\* run_test returns and main falls off its end.
EngineFinalize ==
    /\ r_pc = "engine"
    /\ engine.state \in {"Completed", "Aborted"}
    /\ engine' = [engine EXCEPT !.status = RunStatus(engine.results),
                                !.finalized = @ + 1]
    /\ r_pc' = "exit"
    /\ r_exit' = ExitOk
    /\ UNCHANGED <<r_data, r_name, r_env, project_config, resolved_steps, guiVars, pureVars>>

\* ------------------------------------------------------------ the inputs
Step(action, url, selector, value, timeout, critical) ==
    [action |-> action, url |-> url, selector |-> selector, value |-> value,
     timeout |-> timeout, critical |-> critical]

DefaultTimeout == 40

StepShapes ==
    { Step("navigate", "http://x", "", NoValue, DefaultTimeout, "true"),
      Step("click", "", "#go", NoValue, DefaultTimeout, "false"),
      Step("fill", "", "#email", "$EMAIL", DefaultTimeout, "true"),
      Step("fill", "", "#pw", "$PASSWORD", DefaultTimeout, "absent"),
      Step("fill", "", "#q", "hello", DefaultTimeout, "true"),
      Step("fill", "", "#n", NonString, DefaultTimeout, "true"),
      Step("click", "", "#go", "$EMAIL", DefaultTimeout, "true"),
      Step("hover", "", "#go", NoValue, DefaultTimeout, "true"),
      Step("navigate", "", "", NoValue, DefaultTimeout, "true"),
      Step("wait", "", "#done", NoValue, 0, "true") }

SeqsUpTo(S, n) == UNION {[1..m -> S] : m \in 0..n}

StepLists ==
    {[present |-> FALSE, islist |-> FALSE, items |-> <<>>],
     [present |-> TRUE, islist |-> FALSE, items |-> <<>>]}
    \cup {[present |-> TRUE, islist |-> TRUE, items |-> s] :
            s \in SeqsUpTo(StepShapes, MaxSteps)}

Block(keys, name, email, password) ==
    [keys |-> keys, name |-> name, email |-> email, password |-> password,
     user_agent |-> ""]

Blocks ==
    { EmptyBlock,
      Block({"name"}, <<"c">>, "", ""),
      Block({"name"}, <<>>, "", ""),
      Block({"email"}, <<>>, "doc@x", ""),
      Block({"name", "email", "password"}, <<"c">>, "$PASSWORD", "docpw") }

Configs ==
    { <<>> }
    \cup {[k \in {"PROJECT_CONFIG"} |-> b] : b \in Blocks}
    \cup {[k \in {"TARGET_CONFIG"} |-> Block({"email"}, <<>>, "doc@x", "")],
          [k \in {"BRAND_CONFIG", "TARGET_CONFIG"} |->
              IF k = "TARGET_CONFIG" THEN Block({"name"}, <<"c">>, "", "")
              ELSE Block({"email"}, <<>>, "doc@x", "")],
          [k \in {"PROJECT_CONFIG", "TARGET_CONFIG", "BRAND_CONFIG"} |->
              IF k = "PROJECT_CONFIG" THEN Block({"name"}, <<"c">>, "", "")
              ELSE IF k = "TARGET_CONFIG" THEN Block({"email"}, <<>>, "doc@x", "")
              ELSE Block({"password"}, <<>>, "", "docpw")],
          [k \in {"PROJECT_CONFIG", "TARGET_CONFIG"} |->
              IF k = "PROJECT_CONFIG" THEN EmptyBlock
              ELSE Block({"name", "email", "password"}, <<"c">>, "$PASSWORD", "docpw")]}

ProjectNames == { <<>>, <<"a", "-", "b">> }

EnvPrefixes == { <<"A", "_", "B">>, <<"C">> }

\* An environment: which of the {PREFIX}_* variables are set, and to what.
EnvOf(email, password) ==
    [key \in {<<q, "EMAIL">> : q \in IF email = "" THEN {} ELSE EnvPrefixes}
             \cup {<<q, "PASSWORD">> : q \in IF password = "" THEN {} ELSE EnvPrefixes}
       |-> IF key[2] = "EMAIL" THEN email ELSE password]

\* An environment that sets only {PREFIX}_USER_AGENT.
EnvUserAgent == [key \in {<<q, "USER_AGENT">> : q \in EnvPrefixes} |-> "envua"]

Envs == {EnvOf(e, w) : e \in {"", "env@x", "$EMAIL"}, w \in {"", "envpw"}}
        \cup {EnvUserAgent}

RunnerInit ==
    /\ r_pc = "start"
    /\ r_data \in {[cfg |-> c, steps |-> s] : c \in Configs, s \in StepLists}
    /\ r_name \in ProjectNames
    /\ r_env \in Envs
    /\ project_config = EmptyBlock
    /\ resolved_steps = <<>>
    /\ r_exit = ExitOk
    /\ engine = NoEngine

RunnerNext ==
    \/ RunnerLoad
    \/ RunnerResolve
    \/ RunnerEngine
    \/ \E outcome \in {"ok", "failed"} : EngineStep(outcome)
    \/ EngineFinalize

\* The engine alone, on every list of up to MaxEngineSteps steps.
EngineShapes ==
    { Step("click", "", "#go", NoValue, DefaultTimeout, c) :
        c \in {"true", "false", "absent"} }

EngineInit ==
    /\ r_pc = "engine"
    /\ r_data = [cfg |-> <<>>, steps |-> [present |-> FALSE, islist |-> FALSE,
                                         items |-> <<>>]]
    /\ r_name = <<>>
    /\ r_env = <<>>
    /\ project_config = EmptyBlock
    /\ resolved_steps \in SeqsUpTo(EngineShapes, MaxEngineSteps) \ {<<>>}
    /\ r_exit = ExitOk
    /\ engine = EngineNew(project_config, resolved_steps)

EngineNext ==
    \/ \E outcome \in {"ok", "failed"} : EngineStep(outcome)
    \/ EngineFinalize

\* ======================================================================
\* gui.py, consume_test_logs: the classification of one line (1881-1907)
\* ======================================================================

\* The literals of lines 1889-1897 and 1904.
GlyphBallotX == <<"<U+2717>">>
GlyphCrossMark == <<"<U+274C>">>
LitBracketERROR ==
    <<"]", " ", "E", "R", "R", "O", "R">>
LitERROR ==
    <<"E", "R", "R", "O", "R">>
LitCriticalStepFailed ==
    <<" ", "c", "r", "i", "t", "i", "c", "a", "l", " ", "s", "t", "e", "p",
      " ", "f", "a", "i", "l", "e", "d">>
LitSelector ==
    <<"s", "e", "l", "e", "c", "t", "o", "r">>
LitNotFound ==
    <<"n", "o", "t", " ", "f", "o", "u", "n", "d">>
LitTimeout ==
    <<"t", "i", "m", "e", "o", "u", "t">>
LitFailed ==
    <<"f", "a", "i", "l", "e", "d">>
LitWarning ==
    <<"w", "a", "r", "n", "i", "n", "g">>

\* Mutant of is_explicit_fail: one error-adjacent word is enough.
is_explicit_fail_keyword(normalized) ==
    LET lower == Lower(normalized)
    IN  \/ Contains(lower, Lower(LitERROR))
        \/ Contains(lower, LitTimeout)
        \/ Contains(lower, <<"f", "a", "i", "l">>)

\* Lines 1886-1898; `and` binds tighter than `or`.
is_explicit_fail(normalized) ==
    LET lower == Lower(normalized)
    IN  \/ StartsWith(normalized, GlyphBallotX)
        \/ StartsWith(normalized, GlyphCrossMark)
        \/ Contains(normalized, LitBracketERROR)
        \/ StartsWith(normalized, LitERROR)
        \/ Contains(lower, LitCriticalStepFailed)
        \/ (Contains(lower, LitSelector) /\ Contains(lower, LitNotFound))
        \/ (Contains(lower, LitTimeout)
               /\ (Contains(lower, LitFailed) \/ Contains(lower, LitSelector)))

\* Lines 1899-1907: the tag the line is logged with.
LineTag(line_text) ==
    IF is_explicit_fail(line_text) THEN "error"
    ELSE IF Contains(Lower(line_text), LitWarning) THEN "warning"
    ELSE "info"

\* One turn of the for loop, lines 1881-1907, on the line read.
ClassifyLine ==
    /\ cl_tag = "none"
    /\ LET line_text == Strip(cl_line)
       IN  /\ cl_tag' = LineTag(line_text)
           /\ cl_test_failed' = (cl_test_failed \/ is_explicit_fail(line_text))
           /\ cl_error_message' = IF is_explicit_fail(line_text)
                                    THEN <<line_text>> ELSE cl_error_message
    /\ UNCHANGED <<cl_line, guiVars, runnerVars, durationVars, builderVars>>

\* ------------------------------------------------------------ the inputs
\* Lines are made of up to MaxFragments of these pieces and end in "\n".
FragBallotX ==
    <<"<U+2717>", " ">>
FragCrossMark ==
    <<"<U+274C>", " ">>
FragERROR ==
    <<"E", "R", "R", "O", "R", " ">>
FragLevelERROR ==
    <<"[", "t", "]", " ", "E", "R", "R", "O", "R", " ">>
FragNetworkErrors ==
    <<"N", "e", "t", "w", "o", "r", "k", " ", "e", "r", "r", "o", "r", "s",
      " ", "s", "a", "v", "e", "d", " ", "t", "o", " ", "d", "i", "s", "k",
      " ">>
FragCritical ==
    <<"C", "r", "i", "t", "i", "c", "a", "l", " ", "s", "t", "e", "p", " ",
      "f", "a", "i", "l", "e", "d", " ">>
FragNonCritical ==
    <<"n", "o", "n", "-", "c", "r", "i", "t", "i", "c", "a", "l", " ", "s",
      "t", "e", "p", " ", "f", "a", "i", "l", "e", "d", " ">>
FragSelector ==
    <<"s", "e", "l", "e", "c", "t", "o", "r", " ">>
FragNotFound ==
    <<"n", "o", "t", " ", "f", "o", "u", "n", "d", " ">>
FragTimeout ==
    <<"T", "i", "m", "e", "o", "u", "t", " ">>
FragFailed ==
    <<"f", "a", "i", "l", "e", "d", " ">>
FragWarning ==
    <<"W", "a", "r", "n", "i", "n", "g", " ">>
FragStep ==
    <<"s", "t", "e", "p", " ">>
FragBlank ==
    <<" ">>
FragFail ==
    <<"f", "a", "i", "l", " ">>
Fragments ==
    {FragBallotX, FragCrossMark, FragERROR, FragLevelERROR,
     FragNetworkErrors, FragCritical, FragNonCritical, FragSelector,
     FragNotFound, FragTimeout, FragFailed, FragWarning,
     FragStep, FragBlank, FragFail}

RECURSIVE Concat(_)
Concat(texts) == IF texts = <<>> THEN <<>> ELSE Head(texts) \o Concat(Tail(texts))

ReadLines == {Concat(fs) \o <<"\n">> : fs \in SeqsUpTo(Fragments, MaxFragments)}

ClassifierIdle ==
    /\ cl_line = <<>>
    /\ cl_tag = "idle"
    /\ cl_test_failed = FALSE
    /\ cl_error_message = <<>>

ClassifierInit ==
    /\ cl_line \in ReadLines
    /\ cl_tag = "none"
    /\ cl_test_failed = FALSE
    /\ cl_error_message = <<>>

ClassifierNext == ClassifyLine

\* ======================================================================
\* gui.py, calculate_test_duration (1045-1100)
\* ======================================================================

\* Epochs and durations are counted in ticks of half a second.
TicksPerSecond == 2

Min(S) == CHOOSE x \in S : \A y \in S : x <= y
Max(S) == CHOOSE x \in S : \A y \in S : x >= y
Larger(a, b) == IF a >= b THEN a ELSE b

\* Lines 1057-1064: the start and the end epochs of the steps that have one.
StartTimes(steps) ==
    {steps[i].start : i \in {j \in 1..Len(steps) : "start" \in steps[j].keys}}
EndTimes(steps) ==
    {steps[i].end : i \in {j \in 1..Len(steps) : "end" \in steps[j].keys}}

SecondsPerDay == 86400

\* Lines 1072-1097: the fallback, in seconds, from the stamps of the log.
LogDuration(timestamps) ==
    IF Len(timestamps) >= 2
      THEN LET d == timestamps[Len(timestamps)] - timestamps[1]
           IN  Larger(IF d < 0 THEN d + SecondsPerDay ELSE d, 1)
      ELSE 1

\* Lines 1049-1069, then the fallback. An epoch of 0 is falsy.
CalculateDuration(steps, timestamps) ==
    LET start_times == StartTimes(steps)
        end_times == EndTimes(steps)
    IN  IF steps # <<>> /\ start_times # {} /\ end_times # {}
           /\ Min(start_times) # 0 /\ Max(end_times) # 0
          THEN Larger(Max(end_times) - Min(start_times), TicksPerSecond)
          ELSE LogDuration(timestamps) * TicksPerSecond

CalculateTestDuration ==
    /\ du_duration = <<>>
    /\ du_duration' = <<CalculateDuration(du_steps, du_timestamps)>>
    /\ UNCHANGED <<du_steps, du_timestamps, guiVars, runnerVars,
                   classifierVars, builderVars>>

\* ------------------------------------------------------------ the inputs
\* A step of summary.json: its start and end epochs, end not before start;
\* a step that was cut short has no end.
StepTimings ==
    {[keys |-> K, start |-> a, end |-> IF "end" \in K THEN b ELSE 0] :
        a \in 1..MaxEpoch, b \in 1..MaxEpoch, K \in {{"start", "end"}, {"start"}}}
    \ {t \in [keys : {{"start", "end"}}, start : 1..MaxEpoch, end : 1..MaxEpoch] :
         t.end < t.start}

\* The stamps of the log, in seconds of the day: none, or two a minute
\* apart, or two across midnight.
LogStamps == {<<>>, <<60, 120>>, <<86399, 1>>}

DurationIdle ==
    /\ du_steps = <<>>
    /\ du_timestamps = <<>>
    /\ du_duration = <<0>>

DurationInit ==
    /\ du_steps \in SeqsUpTo(StepTimings, MaxTimedSteps)
    /\ du_timestamps \in LogStamps
    /\ du_duration = <<>>

DurationNext == CalculateTestDuration

\* ======================================================================
\* gui.py: the projects, the flows of the header and the Test Builder
\* ======================================================================

\* ---- more string methods, and the literals of the builder
T_navigate == <<"n", "a", "v", "i", "g", "a", "t", "e">>
T_click == <<"c", "l", "i", "c", "k">>
T_fill == <<"f", "i", "l", "l">>
T_wait == <<"w", "a", "i", "t">>
T_navigate_to == <<"N", "a", "v", "i", "g", "a", "t", "e", " ", "t", "o", " ">>
T_true == <<"t", "r", "u", "e">>
T_false == <<"f", "a", "l", "s", "e">>
T_json == <<".", "j", "s", "o", "n">>
T_py == <<".", "p", "y">>
T_init_py == <<"_", "_", "i", "n", "i", "t", "_", "_", ".", "p", "y">>
T_email_token == <<"$", "E", "M", "A", "I", "L">>

Digits == <<"0", "1", "2", "3", "4", "5", "6", "7", "8", "9">>
IsDigit(c) == \E i \in 1..Len(Digits) : Digits[i] = c
DigitValue(c) == (CHOOSE i \in 1..Len(Digits) : Digits[i] = c) - 1

\* s[:n]
Take(s, n) == SubSeq(s, 1, IF Len(s) < n THEN Len(s) ELSE n)

\* str.endswith(suffix)
EndsWith(s, suffix) ==
    Len(s) >= Len(suffix)
        /\ SubSeq(s, Len(s) - Len(suffix) + 1, Len(s)) = suffix

\* str.capitalize()
Capitalize(s) ==
    IF s = <<>> THEN <<>> ELSE <<UpperChar(s[1])>> \o Lower(Tail(s))

\* The first position of s that holds a character of S, 0 when none does.
FirstIndex(s, S) ==
    IF \E i \in 1..Len(s) : s[i] \in S
      THEN CHOOSE i \in 1..Len(s) :
               s[i] \in S /\ \A j \in 1..(i - 1) : s[j] \notin S
      ELSE 0

\* The characters in code point order, for sorted().
CodePoints ==
    <<" ", "\"", "#", "$", "-", ".", "/">> \o Digits \o <<">">>
        \o UpperLetters \o <<"[", "\\", "]", "_">> \o LowerLetters
CodePoint(c) == CHOOSE i \in 1..Len(CodePoints) : CodePoints[i] = c

\* a < b for two str
RECURSIVE TextLess(_, _)
TextLess(a, b) ==
    IF b = <<>> THEN FALSE
    ELSE IF a = <<>> THEN TRUE
    ELSE IF Head(a) = Head(b) THEN TextLess(Tail(a), Tail(b))
    ELSE CodePoint(Head(a)) < CodePoint(Head(b))

\* sorted(S)[0] and sorted(S)[-1]
First(S) == CHOOSE a \in S : \A b \in S : ~TextLess(b, a)
Last(S) == CHOOSE a \in S : \A b \in S : ~TextLess(a, b)

\* int(text) of a stripped text: an optional sign and decimal digits, a
\* ValueError otherwise.
IsDigits(s) == s # <<>> /\ \A i \in 1..Len(s) : IsDigit(s[i])
IsIntLiteral(s) ==
    IF s # <<>> /\ s[1] \in {"+", "-"} THEN IsDigits(Tail(s)) ELSE IsDigits(s)
RECURSIVE DigitsValue(_)
DigitsValue(s) ==
    IF s = <<>> THEN 0
    ELSE 10 * DigitsValue(SubSeq(s, 1, Len(s) - 1)) + DigitValue(s[Len(s)])
IntOf(s) ==
    IF s[1] = "-" THEN 0 - DigitsValue(Tail(s))
    ELSE IF s[1] = "+" THEN DigitsValue(Tail(s))
    ELSE DigitsValue(s)

\* str(n) of an int
RECURSIVE NatDigits(_)
NatDigits(n) ==
    IF n < 10 THEN <<Digits[n + 1]>>
    ELSE Append(NatDigits(n \div 10), Digits[(n % 10) + 1])
FormatInt(n) == IF n < 0 THEN <<"-">> \o NatDigits(0 - n) ELSE NatDigits(n)

\* ---- json.dumps and json.loads
\* A Python value is tagged with its type; a dict is the sequence of its
\* <<key, value>> pairs in insertion order, a JSON object the sequence of
\* its <<key, literal>> pairs, a literal being the characters written.
PyStr(s) == [t |-> "str", v |-> s]
PyInt(n) == [t |-> "int", v |-> n]
PyBool(b) == [t |-> "bool", v |-> b]

\* A string is written between quotes, with a backslash before " and \.
RECURSIVE JsonEscape(_)
JsonEscape(s) ==
    IF s = <<>> THEN <<>>
    ELSE (IF Head(s) \in {"\"", "\\"} THEN <<"\\", Head(s)>> ELSE <<Head(s)>>)
             \o JsonEscape(Tail(s))

\* Mutant of JsonUnescape: the backslashes stay.
JsonUnescapeKeepsBackslash(s) == s

RECURSIVE JsonUnescape(_)
JsonUnescape(s) ==
    IF s = <<>> THEN <<>>
    ELSE IF Head(s) = "\\" /\ Len(s) >= 2
      THEN <<s[2]>> \o JsonUnescape(SubSeq(s, 3, Len(s)))
    ELSE <<Head(s)>> \o JsonUnescape(Tail(s))

JsonDumpsValue(x) ==
    CASE x.t = "str" -> <<"\"">> \o JsonEscape(x.v) \o <<"\"">>
      [] x.t = "int" -> FormatInt(x.v)
      [] x.t = "bool" -> IF x.v THEN T_true ELSE T_false

JsonLoadsValue(lit) ==
    IF Head(lit) = "\"" THEN PyStr(JsonUnescape(SubSeq(lit, 2, Len(lit) - 1)))
    ELSE IF lit = T_true THEN PyBool(TRUE)
    ELSE IF lit = T_false THEN PyBool(FALSE)
    ELSE PyInt(IntOf(lit))

JsonDumps(d) == [i \in 1..Len(d) |-> <<d[i][1], JsonDumpsValue(d[i][2])>>]
JsonLoads(text) ==
    [i \in 1..Len(text) |-> <<text[i][1], JsonLoadsValue(text[i][2])>>]

\* dict.get(key) and `key in dict`
DictHas(d, key) == \E i \in 1..Len(d) : d[i][1] = key
DictGet(d, key) == d[CHOOSE i \in 1..Len(d) : d[i][1] = key][2]

\* ---- _shorten_selector_for_name (lines 2298-2327)
IsTokenChar(c) == IsLetter(c) \/ IsDigit(c) \/ c \in {"_", "-"}

\* The length of the longest run of [A-Za-z0-9_-] s starts with.
TokenRun(s) ==
    CHOOSE n \in 0..Len(s) :
        /\ \A i \in 1..n : IsTokenChar(s[i])
        /\ n = Len(s) \/ ~IsTokenChar(s[n + 1])

\* The length of the match of \[[^\]]{1,60}\] at the start of s, 0 for none.
AttrMatch(s) ==
    LET close == FirstIndex(s, {"]"})
    IN  IF s # <<>> /\ s[1] = "[" /\ close >= 3 /\ close <= 62
          THEN close ELSE 0

ShortenSelector(selector) ==
    LET s == Strip(selector)
        run == TokenRun(s)
        cut == FirstIndex(s, Whitespace \cup {">", ","})
    IN  IF s = <<>> THEN <<>>
        ELSE IF s[1] \in {"#", "."} /\ TokenRun(Tail(s)) >= 1
          THEN SubSeq(s, 1, 1 + TokenRun(Tail(s)))
        ELSE IF AttrMatch(s) > 0 THEN SubSeq(s, 1, AttrMatch(s))
        ELSE IF run >= 1 /\ AttrMatch(SubSeq(s, run + 1, Len(s))) > 0
          THEN SubSeq(s, 1, run + AttrMatch(SubSeq(s, run + 1, Len(s))))
        ELSE Take(IF cut = 0 THEN s ELSE SubSeq(s, 1, cut - 1), 60)

\* ---- builder_add_step (lines 2167-2239)
\* Lines 2196-2199: int(timeout) if timeout else 40, 40 on a ValueError
TimeoutInt(timeout) ==
    IF timeout # <<>> /\ IsIntLiteral(timeout) THEN IntOf(timeout)
    ELSE DefaultTimeout

\* Lines 2201-2207
StepName(action, target) ==
    IF action = T_navigate THEN T_navigate_to \o Take(target, 50)
    ELSE Capitalize(action) \o <<" ">> \o ShortenSelector(target)
Slug(name) == Take(Replace(Replace(Lower(name), " ", "-"), "/", "-"), 40)

\* Lines 2209-2218: the step dict
BuildStep(action, target, value, timeout_int) ==
    <<<<"name", PyStr(StepName(action, target))>>,
      <<"action", PyStr(action)>>,
      <<IF action = T_navigate THEN "url" ELSE "selector", PyStr(target)>>>>
    \o (IF action = T_fill THEN <<<<"value", PyStr(value)>>>> ELSE <<>>)
    \o <<<<"timeout", PyInt(timeout_int)>>,
         <<"critical", PyBool(TRUE)>>,
         <<"artifact_tag", PyStr(Slug(StepName(action, target)))>>>>

\* Lines 2177-2195: the message of the validation that fails, "" for none
ValidationError(action, target, value) ==
    IF action = T_navigate /\ target = <<>>
      THEN "<U+274C> URL is required for navigate action"
    ELSE IF action \in {T_click, T_fill, T_wait} /\ target = <<>>
      THEN "<U+274C> Selector is required for click/fill/wait actions"
    ELSE IF action = T_fill /\ value = <<>>
      THEN "<U+274C> Value is required for fill action"
    ELSE ""

\* What the four fields of the form hold when Add is clicked. The action
\* combobox is read-only over its four values.
ActionInputs == {T_navigate, T_click, T_fill, T_wait}
TargetInputs == { <<>>, <<" ", "#", "a", "/", "\"", " ">> }
ValueInputs == { <<>>, <<" ">> \o T_email_token \o <<" ">> }
TimeoutInputs == { <<>>, <<"0">>, <<" ", "7">>, <<"x">> }

BuilderAddStep(action_in, target_in, value_in, timeout_in) ==
    LET action == Strip(action_in)
        target == Strip(target_in)
        value == Strip(value_in)
        timeout == Strip(timeout_in)
        error == ValidationError(action, target, value)
        step == BuildStep(action, target, value, TimeoutInt(timeout))
    IN  /\ r_pc = "idle"
        /\ Len(steps_listbox) < MaxBuilderSteps
        /\ IF error # ""
             THEN /\ builder_error_var' = error
                  /\ UNCHANGED <<steps_listbox, builder_steps, builder_status_var>>
             ELSE /\ steps_listbox' = Append(steps_listbox, JsonDumps(step))
                  /\ builder_steps' = Append(builder_steps, step)
                  /\ builder_status_var' = "<U+2705> Step added successfully"
                  /\ builder_error_var' = ""
        /\ UNCHANGED <<fs_case_sensitive, fs_entries, fs_files, environ,
                       projects, project_var, flow_combo, builder_project_var,
                       builder_saved, guiVars, runnerVars, classifierVars,
                       durationVars>>

\* ---- the file system under tests/projects
\* Two names of one directory entry: equal, or equal but for letter case on
\* a file system that does not tell the cases apart.
SameName(a, b) == IF fs_case_sensitive THEN a = b ELSE Lower(a) = Lower(b)

\* The folder os.path.join("tests", "projects", d) is, after makedirs: the
\* existing folder of that name, or a new one named d.
DirOnDisk(entries, d) ==
    IF \E e \in entries : SameName(e, d)
      THEN CHOOSE e \in entries : SameName(e, d)
      ELSE d

\* os.listdir(dir)
ListDir(files, entries, d) ==
    {f.name : f \in {g \in files : g.dir = DirOnDisk(entries, d)}}

\* open(path, "w") and the dump: the file is created, or its content replaced
WriteFile(files, dir, name, doc) ==
    IF \E f \in files : f.dir = dir /\ SameName(f.name, name)
      THEN {IF f.dir = dir /\ SameName(f.name, name)
              THEN [f EXCEPT !.doc = doc] ELSE f : f \in files}
      ELSE files \cup {[dir |-> dir, name |-> name, doc |-> doc]}

\* os.path.splitext(fn)[0]
SplitExt(fn) ==
    LET dots == {i \in 1..Len(fn) : fn[i] = "."}
        last == CHOOSE i \in dots : \A j \in dots : j <= i
    IN  IF dots = {} \/ \A j \in 1..(last - 1) : fn[j] = "." THEN fn
        ELSE SubSeq(fn, 1, last - 1)

\* ---- discover_projects (lines 145-176)
EnvFields == {"EMAIL", "PASSWORD", "USER_AGENT"}

\* Line 155: entry.upper().replace("-", "_").replace(" ", "_")
GuiEnvPrefix(entry) == Replace(Replace(UpperText(entry), "-", "_"), " ", "_")

\* Lines 156-164: the variable f"{env_prefix}_{field}" is the pair
\* <<env_prefix, field>>.
EnvVars(env_prefix, env) ==
    [key \in {<<env_prefix, f>> : f \in EnvFields} |->
        Getenv(env, key, IF key[2] = "USER_AGENT" THEN default_ua ELSE "")]

\* Lines 165-170: the first .py file of the folder, "" for none
DefaultScript(files, entries, entry) ==
    LET pys == {fn \in ListDir(files, entries, entry) :
                    EndsWith(fn, T_py) /\ fn # T_init_py}
    IN  IF pys = {} THEN <<>> ELSE First(pys)

\* The folders are visited in sorted order, and a later folder with the key
\* of an earlier one replaces it.
DiscoverProjects(entries, files, env) ==
    [k \in {UpperText(e) : e \in entries} |->
        LET entry == Last({e \in entries : UpperText(e) = k})
        IN  [name |-> UpperText(entry),
             script |-> DefaultScript(files, entries, entry),
             dir |-> entry,
             env_vars |-> EnvVars(GuiEnvPrefix(entry), env)]]

\* ---- refresh_flows_for_project (lines 178-202): the labels offered
FlowLabels(files, entries, project_name) ==
    IF project_name \notin DOMAIN projects THEN flow_combo
    ELSE {SplitExt(fn) :
            fn \in {n \in ListDir(files, entries, projects[project_name].dir) :
                      (EndsWith(n, T_py) \/ EndsWith(n, T_json)) /\ n # T_init_py}}

\* ---- the comboboxes of the header and of the builder, both read-only
\* over self.projects.keys(); on_project_change (lines 131-143)
HeaderSelectProject(k) ==
    /\ r_pc = "idle"
    /\ k \in DOMAIN projects
    /\ project_var' = k
    /\ flow_combo' = FlowLabels(fs_files, fs_entries, k)
    /\ UNCHANGED <<fs_case_sensitive, fs_entries, fs_files, environ, projects,
                   builder_project_var, steps_listbox, builder_steps,
                   builder_error_var, builder_status_var, builder_saved,
                   guiVars, runnerVars, classifierVars, durationVars>>

BuilderSelectProject(k) ==
    /\ r_pc = "idle"
    /\ k \in DOMAIN projects
    /\ builder_project_var' = k
    /\ UNCHANGED <<fs_case_sensitive, fs_entries, fs_files, environ, projects,
                   project_var, flow_combo, steps_listbox, builder_steps,
                   builder_error_var, builder_status_var, builder_saved,
                   guiVars, runnerVars, classifierVars, durationVars>>

\* ---- builder_save_flow (lines 2251-2296)
\* Line 2275
FlowObj(project, steps) ==
    [PROJECT_CONFIG |-> <<<<"name", PyStr(project)>>>>, TEST_STEPS |-> steps]

\* json.dump(flow_obj, f) and json.load(f)
JsonDumpFlow(flow_obj) ==
    [PROJECT_CONFIG |-> JsonDumps(flow_obj.PROJECT_CONFIG),
     TEST_STEPS |-> [i \in 1..Len(flow_obj.TEST_STEPS) |->
                        JsonDumps(flow_obj.TEST_STEPS[i])]]
JsonLoadFlow(doc) ==
    [PROJECT_CONFIG |-> JsonLoads(doc.PROJECT_CONFIG),
     TEST_STEPS |-> [i \in 1..Len(doc.TEST_STEPS) |->
                        JsonLoads(doc.TEST_STEPS[i])]]

NotSaved == [project |-> <<>>, flow |-> <<>>, steps |-> <<>>]

\* What the flow name field holds when Save is clicked.
FlowInputs == { <<>>, <<" ", "f", " ">> }

BuilderSaveFlow(flow_in) ==
    LET project == Strip(builder_project_var)
        flow == Strip(flow_in)
        steps == [i \in 1..Len(steps_listbox) |-> JsonLoads(steps_listbox[i])]
        project_dir == DirOnDisk(fs_entries, project)
        files == WriteFile(fs_files, project_dir, flow \o T_json,
                           JsonDumpFlow(FlowObj(project, steps)))
        entries == fs_entries \cup {project_dir}
    IN  /\ r_pc = "idle"
        /\ Cardinality({f \in files : f.doc # <<>>}) <= MaxFlowFiles
        /\ IF project = <<>> \/ flow = <<>>
             THEN /\ builder_error_var' = "<U+274C> Project and flow name are required"
                  /\ UNCHANGED <<fs_entries, fs_files, flow_combo,
                                 builder_status_var, builder_saved>>
           ELSE IF steps = <<>>
             THEN /\ builder_error_var' =
                        "<U+274C> At least one step is required before saving"
                  /\ UNCHANGED <<fs_entries, fs_files, flow_combo,
                                 builder_status_var, builder_saved>>
           ELSE /\ fs_entries' = entries
                /\ fs_files' = files
                /\ builder_status_var' = "<U+2705> Saved"
                /\ builder_error_var' = ""
                /\ flow_combo' = IF project_var = project
                                   THEN FlowLabels(files, entries, project)
                                   ELSE flow_combo
                /\ builder_saved' = [project |-> project, flow |-> flow,
                                     steps |-> builder_steps]
        /\ UNCHANGED <<fs_case_sensitive, environ, projects, project_var,
                       builder_project_var, steps_listbox, builder_steps,
                       guiVars, runnerVars, classifierVars, durationVars>>

\* ---- the JSON runner on a flow file
\* The strings the runner and the engine only compare, as values.
TextValues ==
    { <<T_navigate, "navigate">>, <<T_click, "click">>, <<T_fill, "fill">>,
      <<T_wait, "wait">>, <<T_email_token, "$EMAIL">>, <<<<>>, "">>,
      <<<<"#", "a">>, "#a">>, <<<<"#", "a", "/", "\"">>, "#a/\"">> }
TextValue(s) ==
    IF \E p \in TextValues : p[1] = s
      THEN (CHOOSE p \in TextValues : p[1] = s)[2]
      ELSE "<text>"

\* A step as the runner and the engine read it out of its dict.
RunnerStep(d) ==
    Step(IF DictHas(d, "action") THEN TextValue(DictGet(d, "action").v) ELSE "",
         IF DictHas(d, "url") THEN TextValue(DictGet(d, "url").v) ELSE "",
         IF DictHas(d, "selector") THEN TextValue(DictGet(d, "selector").v) ELSE "",
         IF ~DictHas(d, "value") THEN NoValue
         ELSE IF DictGet(d, "value").t = "str" THEN TextValue(DictGet(d, "value").v)
         ELSE NonString,
         IF DictHas(d, "timeout") THEN DictGet(d, "timeout").v ELSE DefaultTimeout,
         IF ~DictHas(d, "critical") THEN "absent"
         ELSE IF DictGet(d, "critical").v = FALSE THEN "false" ELSE "true")

\* data = json.load(f) (json_runner.py, lines 36-37) of a file the builder
\* wrote
RunnerData(doc) ==
    LET flow_obj == JsonLoadFlow(doc)
    IN  [cfg |-> [k \in {"PROJECT_CONFIG"} |->
                    Block({"name"}, DictGet(flow_obj.PROJECT_CONFIG, "name").v,
                          "", "")],
         steps |-> [present |-> TRUE, islist |-> TRUE,
                    items |-> [i \in 1..Len(flow_obj.TEST_STEPS) |->
                                  RunnerStep(flow_obj.TEST_STEPS[i])]]]

\* The file builder_save_flow wrote last.
SavedFile ==
    CHOOSE f \in fs_files :
        /\ f.dir = DirOnDisk(fs_entries, builder_saved.project)
        /\ SameName(f.name, builder_saved.flow \o T_json)

\* python3 tests/json_runner.py <the saved file> <its project>, in the
\* environment of the GUI
RunnerReload ==
    /\ r_pc = "idle"
    /\ builder_saved # NotSaved
    /\ r_pc' = "start"
    /\ r_data' = RunnerData(SavedFile.doc)
    /\ r_name' = builder_saved.project
    /\ r_env' = environ
    /\ UNCHANGED <<project_config, resolved_steps, r_exit, engine, guiVars,
                   pureVars>>

\* ---- run_test_process, the environment and the command of the child
\* (lines 881-951)
\* Lines 930-935: only the non-blank values of env_vars are set
ChildEnv(env, env_vars) ==
    [key \in DOMAIN env \cup {q \in DOMAIN env_vars : env_vars[q] # ""} |->
        IF key \in DOMAIN env_vars /\ env_vars[key] # "" THEN env_vars[key]
        ELSE env[key]]

LaunchJsonFlow(selected_flow) ==
    /\ r_pc = "idle"
    /\ project_var \in DOMAIN projects
    /\ selected_flow \in flow_combo
    /\ \E f \in fs_files :
        /\ f.dir = DirOnDisk(fs_entries, projects[project_var].dir)
        /\ f.name = selected_flow \o T_json
        /\ r_data' = RunnerData(f.doc)
    /\ r_pc' = "start"
    /\ r_name' = project_var
    /\ r_env' = ChildEnv(environ, projects[project_var].env_vars)
    /\ UNCHANGED <<project_config, resolved_steps, r_exit, engine, guiVars,
                   pureVars>>

\* ---- the states after construction
BuilderIdle ==
    /\ fs_case_sensitive = TRUE
    /\ fs_entries = {}
    /\ fs_files = {}
    /\ environ = <<>>
    /\ projects = <<>>
    /\ project_var = <<>>
    /\ flow_combo = {}
    /\ builder_project_var = <<>>
    /\ steps_listbox = <<>>
    /\ builder_steps = <<>>
    /\ builder_error_var = ""
    /\ builder_status_var = ""
    /\ builder_saved = NotSaved

\* The environment of the GUI: nothing set, or the e-mail address of some
\* of the prefixes.
EnvironOf(prefixes) == [key \in {<<q, "EMAIL">> : q \in prefixes} |-> "env@x"]

\* __init__ (lines 33, 422-423, 457, 1969-1971): the projects are discovered,
\* both comboboxes show the first one and the flows of it are listed.
Constructed ==
    /\ projects = DiscoverProjects(fs_entries, fs_files, environ)
    /\ project_var = First(DOMAIN projects)
    /\ builder_project_var = First(DOMAIN projects)
    /\ flow_combo =
         {SplitExt(fn) :
            fn \in {n \in ListDir(fs_files, fs_entries,
                                  projects[project_var].dir) :
                      (EndsWith(n, T_py) \/ EndsWith(n, T_json)) /\ n # T_init_py}}
    /\ steps_listbox = <<>>
    /\ builder_steps = <<>>
    /\ builder_error_var = ""
    /\ builder_status_var = ""
    /\ builder_saved = NotSaved

\* The project folders the builder is tried on, each with one Python flow.
BuilderFolders ==
    { {<<"a", "b">>}, {<<"A", "B">>, <<"c", "-", "d">>} }

BuilderInit ==
    /\ fs_case_sensitive \in BOOLEAN
    /\ fs_entries \in BuilderFolders
    /\ \A a, b \in fs_entries : SameName(a, b) => a = b
    /\ fs_files = {[dir |-> e, name |-> <<"t">> \o T_py, doc |-> <<>>] :
                     e \in fs_entries}
    /\ environ = EnvironOf({GuiEnvPrefix(e) : e \in fs_entries})
    /\ Constructed

BuilderNext ==
    \/ \E action_in \in ActionInputs, target_in \in TargetInputs,
          value_in \in ValueInputs, timeout_in \in TimeoutInputs :
            BuilderAddStep(action_in, target_in, value_in, timeout_in)
    \/ \E flow_in \in FlowInputs : BuilderSaveFlow(flow_in)
    \/ \E k \in DOMAIN projects : HeaderSelectProject(k)
    \/ \E k \in DOMAIN projects : BuilderSelectProject(k)
    \/ RunnerReload
    \/ RunnerLoad
    \/ RunnerResolve
    \/ RunnerEngine

\* ---- the prefix of the environment variables, on every folder name
FolderChars == {"a", "B", "-", " ", "_", "1"}
FolderNames == UNION {[1..n -> FolderChars] : n \in 1..MaxNameLen}

\* One project folder holding one flow the builder wrote: a fill of $EMAIL.
PrefixFlow(entry) ==
    JsonDumpFlow(FlowObj(UpperText(entry),
        <<BuildStep(T_fill, <<"#", "a">>, T_email_token, DefaultTimeout)>>))

PrefixInit ==
    /\ fs_case_sensitive \in BOOLEAN
    /\ fs_entries \in {{e} : e \in FolderNames}
    /\ fs_files = {[dir |-> e, name |-> <<"t">> \o T_json, doc |-> PrefixFlow(e)] :
                     e \in fs_entries}
    /\ environ \in {EnvironOf({}),
                    EnvironOf({GuiEnvPrefix(e) : e \in fs_entries}),
                    EnvironOf({UpperText(e) : e \in fs_entries})}
    /\ Constructed

PrefixNext ==
    \/ \E selected_flow \in flow_combo : LaunchJsonFlow(selected_flow)
    \/ RunnerLoad
    \/ RunnerResolve

\* ======================================================================
\* the specifications
\* ======================================================================
RunnerIdle ==
    /\ r_pc = "idle"
    /\ r_data = [cfg |-> <<>>, steps |-> [present |-> FALSE, islist |-> FALSE,
                                         items |-> <<>>]]
    /\ r_name = <<>>
    /\ r_env = <<>>
    /\ project_config = EmptyBlock
    /\ resolved_steps = <<>>
    /\ r_exit = ExitOk
    /\ engine = NoEngine

Init == GuiInit /\ RunnerIdle /\ ClassifierIdle /\ DurationIdle /\ BuilderIdle
Next == GuiNext
Spec == Init /\ [][Next]_vars

InitRunner == GuiInit /\ RunnerInit /\ ClassifierIdle /\ DurationIdle /\ BuilderIdle
SpecRunner == InitRunner /\ [][RunnerNext]_vars

InitEngine == GuiInit /\ EngineInit /\ ClassifierIdle /\ DurationIdle /\ BuilderIdle
SpecEngine == InitEngine /\ [][EngineNext]_vars

\* The GUI with its threads scheduled fairly and every child ending at some
\* time. What the lines say, the clock and Clear have no part in
\* test_running: lines are plain and the clock stands still. Clicks and a
\* raising readline may or may not happen.
LiveNext ==
    \/ StartTest
    \/ StopTest
    \/ ConsumeLogs
    \/ \E k \in Runs, launch \in LaunchInputs : RunTestProcess(k, launch)
    \/ \E p \in Runs, code \in {ExitOk, ExitFail, ExitNoSteps} : ChildExit(p, code)
    \/ \E k \in Runs : ConsumerStart(k)
    \/ \E k \in Runs : ConsumerRead(k, "info")
    \/ \E k \in Runs : ConsumerEOF(k)
    \/ \E k \in Runs : ConsumerWait(k)
    \/ \E k \in Runs : ConsumerStatus(k)
    \/ \E k \in Runs : ConsumerFinalize(k, now)
    \/ \E k \in Runs : ConsumerReset(k)
    \/ \E k \in Runs : ConsumerRaise(k)

Fairness ==
    \A k \in Runs :
        /\ WF_vars(\E launch \in LaunchInputs : RunTestProcess(k, launch))
        /\ WF_vars(\E code \in {ExitOk, ExitFail, ExitNoSteps} : ChildExit(k, code))
        /\ WF_vars(ConsumerStart(k))
        /\ WF_vars(ConsumerRead(k, "info"))
        /\ WF_vars(ConsumerEOF(k))
        /\ WF_vars(ConsumerWait(k))
        /\ WF_vars(ConsumerStatus(k))
        /\ WF_vars(ConsumerFinalize(k, now))
        /\ WF_vars(ConsumerReset(k))

SpecLive == Init /\ [][LiveNext]_vars /\ Fairness

InitClassifier == GuiInit /\ RunnerIdle /\ ClassifierInit /\ DurationIdle /\ BuilderIdle
SpecClassifier == InitClassifier /\ [][ClassifierNext]_vars

InitDuration == GuiInit /\ RunnerIdle /\ ClassifierIdle /\ DurationInit /\ BuilderIdle
SpecDuration == InitDuration /\ [][DurationNext]_vars

InitBuilder == GuiInit /\ RunnerIdle /\ ClassifierIdle /\ DurationIdle /\ BuilderInit
SpecBuilder == InitBuilder /\ [][BuilderNext]_vars

InitPrefix == GuiInit /\ RunnerIdle /\ ClassifierIdle /\ DurationIdle /\ PrefixInit
SpecPrefix == InitPrefix /\ [][PrefixNext]_vars


\* ======================================================================
\* the claims
\* ======================================================================

\* ---- the GUI observer (Spec)

\* The run of consumer k has its final status decided.
Decided(k) == consumer[k].pc \in {"final", "reset"}

\* C1: when consume_test_logs finishes run k, the status is "failed" exactly
\* when the exit code of that run's child is non-zero or the thread
\* classified a line as error, and "ok" otherwise.
C1_FinalStatus ==
    \A k \in Runs :
        (Decided(k) /\ proc[k].state = "exited") =>
            (consumer[k].status = "failed"
                <=> (consumer[k].test_failed \/ proc[k].exit # ExitOk))

\* The summary.json files thread k wrote.
SummariesBy(k) == {w \in written : w.by = k /\ w.file = "summary.json"}

\* C2: every run whose child was started is finalized exactly once: when
\* its consumer thread has ended, create_test_summary has written one
\* summary.json for it.
C2_FinalizedOnce ==
    \A k \in Runs :
        consumer[k].pc \in {"done", "raised"} => Cardinality(SummariesBy(k)) = 1

\* C6: a launch whose flow document fails at load leaves no run directory
\* and no artifact, the observer of the child included.
C6_NoArtifactsOnLoadError ==
    \A k \in Runs :
        (proc[k].flow = "invalid" /\ proc[k].state = "exited"
            /\ proc[k].exit = ExitNoSteps) =>
            /\ RunDir(k) \notin dirs
            /\ \A w \in written : w.by # k

\* C17: error_details.txt is written only by a finalization whose status
\* is failed; a finalization with status ok writes summary.json and
\* test_log.txt and nothing else.
C17_ErrorDetailsOnlyWhenFailed ==
    \A w \in written :
        /\ w.file = "error_details.txt" => w.status = "failed"
        /\ w.status = "ok" => w.file \in {"summary.json", "test_log.txt"}

\* A run finalized ok into a directory that holds the error_details.txt of
\* a failed run.
C17_Witness ==
    \E w \in written, e \in written :
        /\ w.file = "summary.json"
        /\ w.status = "ok"
        /\ e.file = "error_details.txt"
        /\ e.dir = w.dir
        /\ e.by # w.by

\* C19: a run whose RUN_DIR sentinel was read, naming a directory that
\* exists, has its files written into that directory, whatever GUI events
\* came in between; only a run without a sentinel is written to a
\* timestamped fallback directory.
C19_RunDirPreferred ==
    \A w \in written :
        IF RunDir(w.by) \in dirs
          THEN w.dir = RunDir(w.by)
          ELSE \E t \in 0..MaxTime : w.dir = FallbackDir(t)

\* C20: no directory holds files written by the finalizations of two
\* distinct runs.
C20_DirectoryExclusive ==
    \A w1 \in written, w2 \in written : w1.dir = w2.dir => w1.by = w2.by

Alive == {p \in Runs : proc[p].state = "running"}

\* C24: at most one child launched by the GUI is alive at any time.
C24_OneChildAlive == Cardinality(Alive) <= 1

\* C25: a consumer thread waits on, and takes the exit code of, the child
\* whose output it read, and does not reset test_running while a newer run
\* is in progress.
C25_ConsumerUsesOwnProcess ==
    \A k \in Runs :
        /\ consumer[k].pc \in {"wait", "rc"} => consumer[k].waited = consumer[k].src
        /\ consumer[k].pc = "rc" => test_process = consumer[k].src
        /\ consumer[k].pc = "reset" =>
               \A p \in Runs : p # consumer[k].src => proc[p].state # "running"

\* The loop of consumer k has ended.
PastLoop(k) == consumer[k].pc \in {"wait", "rc", "final", "reset"}

\* A step in which a line of child p is read.
ReadStep(p) == proc'[p].emitted # proc[p].emitted

\* Reading a line, an error line included, leaves the child as it is and
\* every reading thread in its loop.
C26_Step ==
    \A p \in Runs :
        ReadStep(p) =>
            /\ proc'[p].state = proc[p].state
            /\ proc'[p].exit = proc[p].exit
            /\ \A k \in Runs : consumer[k].pc = "read" => consumer'[k].pc = "read"

\* The loop has ended, and files are written, only once the child whose
\* output the thread reads has exited.
C26_State ==
    \A k \in Runs :
        /\ PastLoop(k) => proc[consumer[k].src].state = "exited"
        /\ \A w \in written : w.by = k => consumer[k].pc \in {"reset", "done"}

\* C26: an error line does not terminate the child and does not end the
\* loop; the loop ends, and create_test_summary is called, only at end of
\* stream, when the child whose output is read has exited.
C26_ErrorLineDoesNotStop == []C26_State /\ [][C26_Step]_vars

\* An error line was read, the child kept running and a later line was read
\* from it.
C26_Witness ==
    \E k \in Runs :
        /\ consumer[k].pc = "read"
        /\ consumer[k].test_failed
        /\ consumer[k].last_err = 1
        /\ proc[consumer[k].src].emitted = 2
        /\ proc[consumer[k].src].state = "running"

\* The files thread k wrote, by name.
FilesBy(k, f) == {w \in written : w.by = k /\ w.file = f}

\* C28: a run finalized as failed has error_details.txt exactly when an
\* error line was observed, and the recorded error is the last such line;
\* a run that failed by its exit code alone has summary.json with no error
\* and no error_details.txt.
C28_ErrorDetailsIffErrorLine ==
    /\ \A k \in Runs :
           /\ consumer[k].test_failed <=> consumer[k].last_err # 0
           /\ consumer[k].error_message # <<>> <=> consumer[k].last_err # 0
           /\ consumer[k].last_err # 0 =>
                  consumer[k].error_message
                    = <<Line("err", consumer[k].src, consumer[k].last_err)>>
           /\ consumer[k].pc = "reset" =>
                  /\ \A w \in FilesBy(k, "summary.json") :
                         w.error = consumer[k].error_message
                  /\ consumer[k].status = "failed" =>
                         (FilesBy(k, "error_details.txt") # {}
                             <=> consumer[k].last_err # 0)
    /\ \A w \in written :
           /\ w.file = "error_details.txt" => w.error # <<>>
           /\ (w.file = "summary.json" /\ w.status = "failed" /\ w.error = <<>>)
                  => FilesBy(w.by, "error_details.txt") = {}

\* One run failed by its exit code alone, another by an error line that
\* was not the first line.
C28_Witness ==
    \E w \in written, e \in written :
        /\ w.file = "summary.json" /\ w.status = "failed" /\ w.error = <<>>
        /\ e.file = "error_details.txt" /\ e.error # <<>> /\ e.error[1].n = 2

\* C27: whenever test_running is true it becomes false again, whether the
\* launcher finds no project or no script, Popen raises, the run completes
\* or the consumer thread raises.
C27_RunningEventuallyFalse == test_running ~> ~test_running

\* Both runs are over and test_running is false: one run completed and was
\* finalized, the launcher of the other returned without a child.
C27_Witness ==
    /\ ~test_running
    /\ nruns = 2
    /\ \E k \in Runs, j \in Runs :
           /\ consumer[k].pc = "done"
           /\ runner[j] = "done" /\ proc[j].state = "none"

\* C29: a run whose child was terminated by Stop is finalized as failed.
C29_StoppedRunFailed ==
    \A k \in Runs :
        (consumer[k].pc \in {"final", "reset"}
            /\ proc[consumer[k].src].exit = ExitTerminated)
          => consumer[k].status = "failed"

\* ---- the engine (SpecEngine)

StepOf(r) == engine.steps[r.index]
Results == {engine.results[i] : i \in 1..Len(engine.results)}
HasResult(j) == \E r \in Results : r.index = j
CriticalFailure(r) == r.status = "failed" /\ Critical(StepOf(r))
NonCriticalFailure(r) == r.status = "failed" /\ ~Critical(StepOf(r))

\* C3: a failed critical step halts the run: the run is Aborted, no later
\* step has a StepResult, and the run's summary is still written before the
\* process ends.
C3_CriticalFailureHalts ==
    \A r \in Results :
        CriticalFailure(r) =>
            /\ engine.state = "Aborted"
            /\ \A j \in (r.index + 1)..Len(engine.steps) : ~HasResult(j)
            /\ r_pc = "exit" => engine.finalized = 1

C3_Witness ==
    /\ r_pc = "exit"
    /\ engine.state = "Aborted"
    /\ engine.finalized = 1
    /\ Len(engine.results) < Len(engine.steps)
    /\ \E r \in Results : CriticalFailure(r)

\* C4 as claimed: after a failed non-critical step, every later step of the
\* document has a StepResult when the run has ended.
C4_EveryLaterStepRuns ==
    r_pc = "exit" =>
        \A r \in Results :
            NonCriticalFailure(r) =>
                \A j \in (r.index + 1)..Len(engine.steps) : HasResult(j)

\* C4 as amended: a failed non-critical step is recorded and does not abort
\* the run; when the run has ended, every later step has a StepResult,
\* except those that follow a later failed critical step.
C4_NonCriticalContinues ==
    /\ \A r \in Results :
           (NonCriticalFailure(r) /\ r.index = Len(engine.results))
               => engine.state # "Aborted"
    /\ r_pc = "exit" =>
           \A r \in Results :
               NonCriticalFailure(r) =>
                   \A j \in (r.index + 1)..Len(engine.steps) :
                       \/ HasResult(j)
                       \/ \E q \in Results :
                              CriticalFailure(q) /\ r.index < q.index /\ q.index < j

C4_Witness ==
    /\ r_pc = "exit"
    /\ \E r \in Results :
           /\ NonCriticalFailure(r)
           /\ r.index < Len(engine.steps)
           /\ \A j \in (r.index + 1)..Len(engine.steps) : HasResult(j)

\* C5: a run that reached the end of its step list has status ok exactly
\* when no step failed.
C5_StatusAtEnd ==
    (engine.state = "Completed" /\ engine.finalized = 1) =>
        (engine.status = "ok" <=> \A r \in Results : r.status # "failed")

C5_Witness ==
    /\ engine.state = "Completed"
    /\ engine.finalized = 1
    /\ engine.status = "failed"
    /\ Len(engine.results) = Len(engine.steps)
    /\ engine.results[Len(engine.results)].status = "ok"

\* ---- the runner (SpecRunner)

TestSteps == r_data.steps
Items == r_data.steps.items
EngineInvoked == engine.state # "none"

\* C7: a document whose TEST_STEPS is absent, not a list or empty ends the
\* runner with a non-zero exit code, and no engine is made or run.
C7_NoStepsFailsAtLoad ==
    (~TestSteps.present \/ ~TestSteps.islist \/ Items = <<>>) =>
        /\ ~EngineInvoked
        /\ r_pc \in {"start", "exit"}
        /\ r_pc = "exit" => r_exit # ExitOk

C7_Witness ==
    /\ r_pc = "exit"
    /\ r_exit = ExitNoSteps
    /\ TestSteps.present
    /\ ~TestSteps.islist

\* The StepSpec schema.
ValidStep(st) ==
    /\ st.action \in {"navigate", "click", "fill", "wait"}
    /\ st.action = "navigate" => st.url # ""
    /\ st.action \in {"click", "fill", "wait"} => st.selector # ""
    /\ st.action = "fill" => (IsStr(st.value) /\ st.value # "")
    /\ st.timeout > 0

\* C8: a document with a step that violates the schema is refused at load:
\* no step list is handed to the engine.
C8_InvalidStepRefused ==
    (\E i \in 1..Len(Items) : ~ValidStep(Items[i])) => ~EngineInvoked

\* The credentials C9 names: the field of the document's project block or,
\* when the block has none, the environment variable of the project's prefix.
GivenBlock == ProjectBlock(r_data.cfg)
GivenPrefix ==
    NormalizePrefix(IF r_name # <<>> THEN r_name
                    ELSE IF "name" \in GivenBlock.keys THEN GivenBlock.name ELSE <<>>)
EnvValue(suffix) ==
    IF <<GivenPrefix, suffix>> \in DOMAIN r_env THEN r_env[<<GivenPrefix, suffix>>] ELSE ""
GivenEmail ==
    IF "email" \in GivenBlock.keys THEN GivenBlock.email ELSE EnvValue("EMAIL")
GivenPassword ==
    IF "password" \in GivenBlock.keys THEN GivenBlock.password ELSE EnvValue("PASSWORD")

\* C9: the engine is given the whole step list with every fill step whose
\* value is $EMAIL (or $PASSWORD) carrying the project's email (or password).
C9_TokensSubstituted ==
    EngineInvoked =>
        /\ Len(engine.steps) = Len(Items)
        /\ \A i \in 1..Len(Items) :
               /\ (Items[i].action = "fill" /\ Items[i].value = "$EMAIL")
                      => engine.steps[i].value = GivenEmail
               /\ (Items[i].action = "fill" /\ Items[i].value = "$PASSWORD")
                      => engine.steps[i].value = GivenPassword

C9_Witness ==
    /\ EngineInvoked
    /\ "email" \notin GivenBlock.keys
    /\ <<GivenPrefix, "EMAIL">> \in DOMAIN r_env
    /\ \E i \in 1..Len(Items) :
           /\ Items[i].action = "fill"
           /\ Items[i].value = "$EMAIL"
           /\ engine.steps[i].value = "env@x"

Tokens == {"$EMAIL", "$PASSWORD"}

\* C10 as claimed: no step given to the engine has the value $EMAIL or
\* $PASSWORD.
C10_NoTokenReachesEngine ==
    EngineInvoked => \A i \in 1..Len(engine.steps) : engine.steps[i].value \notin Tokens

\* C10 as amended: a fill step given to the engine has the value $EMAIL or
\* $PASSWORD only when that text is the project's own email or password,
\* put there in place of a token; a step that is not a fill step is given
\* to the engine as the document has it.
C10_FillTokensResolved ==
    EngineInvoked =>
        \A i \in 1..Len(engine.steps) :
            IF Items[i].action = "fill"
              THEN engine.steps[i].value \in Tokens =>
                     \/ Items[i].value = "$EMAIL"
                            /\ engine.config.email = engine.steps[i].value
                     \/ Items[i].value = "$PASSWORD"
                            /\ engine.config.password = engine.steps[i].value
              ELSE engine.steps[i] = Items[i]

C10_Witness ==
    /\ EngineInvoked
    /\ \E i \in 1..Len(Items) :
           /\ Items[i].action = "fill"
           /\ Items[i].value \in Tokens
           /\ engine.steps[i].value \notin Tokens
    /\ \E i \in 1..Len(Items) :
           /\ Items[i].action # "fill"
           /\ Items[i].value \in Tokens

\* The block of the document under the first of the three keys it has.
FirstKey ==
    IF "PROJECT_CONFIG" \in DOMAIN r_data.cfg THEN "PROJECT_CONFIG"
    ELSE IF "TARGET_CONFIG" \in DOMAIN r_data.cfg THEN "TARGET_CONFIG"
    ELSE IF "BRAND_CONFIG" \in DOMAIN r_data.cfg THEN "BRAND_CONFIG"
    ELSE "none"
ChosenBlock == IF FirstKey = "none" THEN EmptyBlock ELSE r_data.cfg[FirstKey]
ChosenPrefix ==
    NormalizePrefix(IF r_name # <<>> THEN r_name
                    ELSE IF "name" \in ChosenBlock.keys THEN ChosenBlock.name ELSE <<>>)
ChosenEnv(suffix, default) ==
    IF <<ChosenPrefix, suffix>> \in DOMAIN r_env
      THEN r_env[<<ChosenPrefix, suffix>>] ELSE default

\* C11: the project configuration is built from the block under the first
\* key present among PROJECT_CONFIG, TARGET_CONFIG, BRAND_CONFIG (an empty
\* block when none is): every field that block has is kept, and a field it
\* lacks comes from the caller or the environment, never from a block under
\* a later key.
C11_FirstPresentBlock ==
    r_pc # "start" =>
        /\ \A f \in ChosenBlock.keys : project_config[f] = ChosenBlock[f]
        /\ "name" \notin ChosenBlock.keys => project_config.name = r_name
        /\ "email" \notin ChosenBlock.keys
               => project_config.email = ChosenEnv("EMAIL", "")
        /\ "password" \notin ChosenBlock.keys
               => project_config.password = ChosenEnv("PASSWORD", "")
        /\ "user_agent" \notin ChosenBlock.keys
               => project_config.user_agent = ChosenEnv("USER_AGENT", default_ua)

C11_Witness ==
    /\ EngineInvoked
    /\ {"PROJECT_CONFIG", "TARGET_CONFIG"} \subseteq DOMAIN r_data.cfg
    /\ "email" \notin r_data.cfg["PROJECT_CONFIG"].keys
    /\ "email" \in r_data.cfg["TARGET_CONFIG"].keys
    /\ r_data.cfg["TARGET_CONFIG"].email = "doc@x"
    /\ engine.config.email = ""

\* C12: the configuration given to the engine has a non-empty name,
\* whatever the document says, when the caller names a project.
C12_NameNeverEmpty ==
    (EngineInvoked /\ r_name # <<>>) => engine.config.name # <<>>

\* The environment sets none of the three variables of the project's prefix.
CredentialsUnset ==
    \A suffix \in {"EMAIL", "PASSWORD", "USER_AGENT"} :
        <<ChosenPrefix, suffix>> \notin DOMAIN r_env

\* C13: with {PREFIX}_EMAIL, {PREFIX}_PASSWORD and {PREFIX}_USER_AGENT unset,
\* the fields the document leaves out resolve to "" (email, password) and to
\* the default user agent, the runner does not end at load for that, and a
\* document with steps has the engine invoked with all of them.
C13_MissingCredentials ==
    CredentialsUnset =>
        /\ r_pc # "start" =>
               /\ "email" \notin ChosenBlock.keys => project_config.email = ""
               /\ "password" \notin ChosenBlock.keys => project_config.password = ""
               /\ "user_agent" \notin ChosenBlock.keys
                      => project_config.user_agent = default_ua
        /\ (r_pc = "exit" /\ TestSteps.present /\ TestSteps.islist /\ Items # <<>>)
               => (EngineInvoked /\ r_exit # ExitNoSteps)
        /\ EngineInvoked =>
               /\ engine.config = project_config
               /\ Len(engine.steps) = Len(Items)

C13_Witness ==
    /\ CredentialsUnset
    /\ r_env # <<>>
    /\ EngineInvoked
    /\ ChosenBlock.keys \cap {"email", "password", "user_agent"} = {}
    /\ engine.config.email = ""
    /\ engine.config.password = ""
    /\ engine.config.user_agent = default_ua
    /\ \E i \in 1..Len(Items) :
           Items[i].value = "$PASSWORD" /\ engine.steps[i].value = ""

\* ---- the classification of a line (SpecClassifier)

LineText == Strip(cl_line)
Classified == cl_tag \in {"error", "warning", "info"}

\* The word w stands in s as a token: no letter touches it on either side.
HasToken(s, w) ==
    \E i \in 1..(Len(s) - Len(w) + 1) :
        /\ SubSeq(s, i, i + Len(w) - 1) = w
        /\ i = 1 \/ ~IsLetter(s[i - 1])
        /\ i + Len(w) > Len(s) \/ ~IsLetter(s[i + Len(w)])

\* Rule 1, as C14 words it.
BeginsWithMarker(t) ==
    \/ StartsWith(t, GlyphBallotX)
    \/ StartsWith(t, GlyphCrossMark)
    \/ StartsWith(t, LitERROR)
ExplicitMarker(t) == BeginsWithMarker(t) \/ HasToken(t, LitERROR)

\* Rule 2, as C15 words it.
Mentions(t, words) == Contains(Lower(t), Lower(Strip(words)))
SelectorNotFound(t) == Mentions(t, LitSelector) /\ Mentions(t, LitNotFound)
TimeoutWithCause(t) ==
    Mentions(t, LitTimeout) /\ (Mentions(t, LitFailed) \/ Mentions(t, LitSelector))
CompoundRule(t) ==
    \/ Mentions(t, LitCriticalStepFailed)
    \/ SelectorNotFound(t)
    \/ TimeoutWithCause(t)

\* C14: a line that begins with a failure glyph or with ERROR, or that has
\* the token ERROR anywhere, is classified error and marks the run failed.
C14_ExplicitMarkerIsError ==
    (Classified /\ ExplicitMarker(LineText)) =>
        (cl_tag = "error" /\ cl_test_failed)

\* C15: a line that mentions "critical step failed", or "selector" and
\* "not found", or "timeout" with "failed" or "selector", in any letter case
\* and at any place in the line, is classified error.
C15_CompoundRuleIsError ==
    (Classified /\ CompoundRule(LineText)) => cl_tag = "error"

C18_DurationIsSpan ==
    (du_duration # <<>> /\ du_steps # <<>>
        /\ \A i \in 1..Len(du_steps) : du_steps[i].keys = {"start", "end"}) =>
        du_duration[1] = Max(EndTimes(du_steps)) - Min(StartTimes(du_steps))

\* ---- the Test Builder (SpecBuilder)

\* The value under key of step d, as a text; "" when the key is missing.
Field(d, key) == IF DictHas(d, key) THEN DictGet(d, key).v ELSE <<>>

\* C21: every step the builder appended is schema-valid: a navigate has a
\* non-empty url, a click, fill or wait a non-empty selector, a fill a
\* non-empty value, the timeout is an integer greater than 0 and critical
\* is true.
C21_AppendedStepsValid ==
    \A i \in 1..Len(builder_steps) :
        LET d == builder_steps[i]
            action == Field(d, "action")
        IN  /\ action \in {T_navigate, T_click, T_fill, T_wait}
            /\ action = T_navigate => Field(d, "url") # <<>>
            /\ action \in {T_click, T_fill, T_wait} => Field(d, "selector") # <<>>
            /\ action = T_fill => Field(d, "value") # <<>>
            /\ DictHas(d, "timeout")
            /\ DictGet(d, "timeout").t = "int"
            /\ DictGet(d, "timeout").v > 0
            /\ DictHas(d, "critical")
            /\ DictGet(d, "critical") = PyBool(TRUE)

\* The steps of the builder as the runner reads them.
SavedAsRunnerSteps ==
    [i \in 1..Len(builder_saved.steps) |-> RunnerStep(builder_saved.steps[i])]

\* Step b is step a, but for the $EMAIL or $PASSWORD of a fill, which the
\* runner has replaced by the value of the project.
SameButTokens(a, b) ==
    IF a.action = "fill" /\ a.value \in {"$EMAIL", "$PASSWORD"}
      THEN b = [a EXCEPT !.value = b.value]
      ELSE b = a

\* C22: the document builder_save_flow wrote, loaded again, holds the steps
\* the builder had when it saved, in their order and with the value of
\* every field; the runner started on the file reads these steps, and
\* hands them to the engine with nothing changed but the tokens it
\* resolves.
C22_RoundTrip ==
    /\ builder_saved # NotSaved =>
           JsonLoadFlow(SavedFile.doc).TEST_STEPS = builder_saved.steps
    /\ r_pc # "idle" => r_data.steps.items = SavedAsRunnerSteps
    /\ r_pc \in {"resolved", "engine"} =>
           /\ Len(resolved_steps) = Len(builder_saved.steps)
           /\ \A i \in 1..Len(resolved_steps) :
                  SameButTokens(SavedAsRunnerSteps[i], resolved_steps[i])
    /\ r_pc = "engine" => engine.steps = resolved_steps

\* The engine was created on a saved flow of two steps, one a fill of
\* $EMAIL into a selector that holds a quote, one with a timeout typed in.
C22_Witness ==
    /\ r_pc = "engine"
    /\ Len(builder_saved.steps) = 2
    /\ \E i, j \in 1..2 :
        /\ Field(builder_saved.steps[i], "value") = T_email_token
        /\ "\"" \in {Field(builder_saved.steps[i], "selector")[n] :
                       n \in 1..Len(Field(builder_saved.steps[i], "selector"))}
        /\ engine.steps[i].value = "env@x"
        /\ DictGet(builder_saved.steps[j], "timeout").v # DefaultTimeout

\* C30: once builder_save_flow has saved a flow for the project the header
\* shows, the name of the flow is among the flows offered for that project.
C30_SavedFlowOffered ==
    (builder_saved # NotSaved /\ project_var = builder_saved.project) =>
        builder_saved.flow \in flow_combo

\* ---- the prefix of the environment variables (SpecPrefix)

\* The variables the runner looks up: lines 44-48 of json_runner.py, on the
\* name it was started with.
RunnerLookups(project_name) ==
    {<<NormalizePrefix(project_name), f>> : f \in EnvFields}

\* C23: for every project folder, the prefix discover_projects computed is
\* the prefix normalize_prefix gives for the name passed to the runner, the
\* variables of the project are the ones the runner looks up, each reaches
\* the runner with the value the GUI holds for it, and normalizing a prefix
\* again changes nothing.
C23_PrefixesAgree ==
    /\ \A k \in DOMAIN projects :
        /\ NormalizePrefix(k) = GuiEnvPrefix(projects[k].dir)
        /\ DOMAIN projects[k].env_vars = RunnerLookups(k)
        /\ NormalizePrefix(NormalizePrefix(k)) = NormalizePrefix(k)
    /\ \A e \in fs_entries :
           NormalizePrefix(NormalizePrefix(e)) = NormalizePrefix(e)
    /\ r_pc # "idle" =>
        /\ r_name \in DOMAIN projects
        /\ \A key \in RunnerLookups(r_name) :
               Getenv(r_env, key, "") = projects[r_name].env_vars[key]
    /\ r_pc \in {"loaded", "resolved"} =>
        /\ project_config.email = projects[r_name].env_vars[
                                      <<GuiEnvPrefix(projects[r_name].dir), "EMAIL">>]
        /\ project_config.user_agent = default_ua
    /\ r_pc = "resolved" =>
           resolved_steps[1].value = Getenv(environ,
               <<GuiEnvPrefix(projects[r_name].dir), "EMAIL">>, "")

\* The runner resolved $EMAIL to the address the GUI injected for a folder
\* whose name holds a lower-case letter, a dash and a space.
C23_Witness ==
    /\ r_pc = "resolved"
    /\ resolved_steps[1].value = "env@x"
    /\ \E e \in fs_entries : {"a", "-", " "} \subseteq {e[i] : i \in 1..Len(e)}

====
